---- MODULE Spec2Model ----
(***************************************************************************)
(* The Design Snippets relay: the socket.io broker (src/unnamed/part_000)  *)
(* and the call path of the node driver (dsNodeDriver.js).                 *)
(*                                                                         *)
(* A connection is a socket.io socket of the broker.  Its peer is either a *)
(* DsDriver (it answers the role query with 'client' and issues calls      *)
(* through exec / execCb and the typed methods) or any other socket.io     *)
(* peer, such as the python snippet server (it answers what it likes, may  *)
(* emit 'action' itself and acknowledges the calls relayed to it).         *)
(***************************************************************************)
EXTENDS Integers, Sequences, FiniteSets, TLC

\* ------------------------------------------------------------------ bounds
MaxConns == 3
MaxCalls == 2
MaxPush == 1

Conns == 1..MaxConns
Calls == 1..MaxCalls

\* the connections whose peer is a DsDriver; the others are other peers
Drivers == {1}

\* --------------------------------------------------------------- JS values
Undefined == [t |-> "undefined", v |-> ""]
Str(s) == [t |-> "string", v |-> s]
Bool(b) == [t |-> "boolean", v |-> b]

\* typeof x
TypeOf(x) == x.t

\* JavaScript truthiness of the values used here
Truthy(x) ==
  \/ x.t = "boolean" /\ x.v = "true"
  \/ x.t = "string" /\ x.v # ""

\* what a worker may pass to the acknowledgement of a relayed call
Values == {Undefined, Bool("false"), Bool("true")}

\* the name arguments a caller may hand to a typed method
Names == {Undefined, Str(""), Str("foo")}

\* the answers a peer may give to the role query
Types == {"server", "client", "worker"}

\* the value of snippetSocket while no server is registered (undefined / null)
NoSocket == 0

\* --------------------------------------------------- the typed driver layer
Methods ==
  {"addSnippet", "setData", "addData", "removeData", "train", "showLoss",
   "plot1D", "predictOne", "predict", "sample", "setProp", "getProp",
   "loadGPR", "samplerRunning"}

\* fn of the call envelope each typed method hands to exec (loadGPR: after
\* the envelope of setData)
Fn(method) ==
  CASE method = "addSnippet" -> "add snippet"
    [] method = "setData" -> "snippet set data"
    [] method = "addData" -> "snippet add data"
    [] method = "removeData" -> "snippet remove data"
    [] method = "train" -> "snippet train"
    [] method = "showLoss" -> "snippet plotLastLoss"
    [] method = "plot1D" -> "snippet plot1D"
    [] method = "predictOne" -> "snippet predict one"
    [] method = "predict" -> "snippet predict"
    [] method = "sample" -> "snippet sample"
    [] method = "setProp" -> "snippet setProp"
    [] method = "getProp" -> "snippet getProp"
    [] method = "loadGPR" -> "snippet load gpr"
    [] method = "samplerRunning" -> "sampler running"

\* the methods that start with: if (typeof name !== 'string') throw ...
ChecksName ==
  {"setData", "addData", "removeData", "train", "showLoss", "plot1D",
   "predictOne", "predict", "sample", "setProp", "getProp", "loadGPR"}

\* the methods that take a name argument
TakesName == {"addSnippet"} \cup ChecksName

\* the argument lists a typed method is called with
MethodInputs ==
  {<<m, n>> \in Methods \X Names : m \in TakesName \/ n = Undefined}

\* the typed calls followed through the broker
RelayInputs == {<<"train", Str("foo")>>}

Fns == {Fn(m) : m \in Methods}

\* the push events of the snippet server the driver listens for
PushEvents == {"single sample", "sampler complete"}

\* the value of a handler field no handler was assigned to
Null == "null"

\* the handlers the application may assign to a handler field
Handlers == {"f", "g"}

\* the handler fields of a DsDriver
HandlerFields == {"connectCallback", "sampleCallback", "sampleFinalCallback"}

\* the payloads of a push event
SampleData == {"s1", "s2"}

\* the named events the broker and the driver know
Events == {"getType", "server ok", "no server"} \cup PushEvents \cup Fns

VARIABLES
  status,         \* per connection: "fresh", "live" (connected), "closed"
  answered,       \* per connection: its answer to getType, or "none"
  role,           \* per connection: the branch the getType callback took
  snippetSocket,  \* the broker's snippetSocket: a connection or NoSocket
  emitted,        \* per connection and event: how often the broker emitted it
  calls,          \* per call: the envelope, where it is, what came back
  acks,           \* acknowledgement packets in flight from broker to clients
  pushed,         \* per push event: how often the server emitted it to the broker
  self,           \* the DsDriver object: its flags and its handler fields
  driverSocket,   \* the driver's socket: "connecting", "connected", "closed"
  delivered,      \* the event the driver's last step handled, the flags before
  invoked         \* the handler invocations the driver's last step made

brokerVars == <<status, answered, role, snippetSocket, emitted, calls, acks, pushed>>
driverVars == <<self, driverSocket, delivered, invoked>>
vars == <<status, answered, role, snippetSocket, emitted, calls, acks, pushed,
          self, driverSocket, delivered, invoked>>

Live == {c \in Conns : status[c] = "live"}

NoCall ==
  [st |-> "unused", caller |-> NoSocket, via |-> "none", method |-> "none",
   fn |-> "none", name |-> Undefined, worker |-> NoSocket, reply |-> Undefined,
   nacks |-> 0, got |-> Undefined, result |-> Undefined, next |-> "none",
   after |-> NoSocket]

\* the connected and snippetServerOnline flags of driver object s
Flags(s) == <<s.connected, s.snippetServerOnline>>

NoEvent == [ev |-> "none", data |-> "none", before |-> <<FALSE, FALSE>>]

Used == {k \in Calls : calls[k].st # "unused"}

Init ==
  /\ status = [c \in Conns |-> "fresh"]
  /\ answered = [c \in Conns |-> "none"]
  /\ role = [c \in Conns |-> "unknown"]
  /\ snippetSocket = NoSocket
  /\ emitted = [c \in Conns |-> [e \in Events |-> 0]]
  /\ calls = [k \in Calls |-> NoCall]
  /\ acks = {}
  /\ pushed = [e \in PushEvents |-> 0]
  /\ self = [sampleCallback |-> Null, connectCallback |-> Null,
             sampleFinalCallback |-> Null, connected |-> FALSE,
             snippetServerOnline |-> FALSE]
  /\ driverSocket = "connecting"
  /\ delivered = NoEvent
  /\ invoked = <<>>

\* socket.emit(ev) at the broker: one more ev emitted to connection c
Emit(em, c, ev) == [em EXCEPT ![c][ev] = @ + 1]

\* ------------------------------------------------------------ the broker

\* getTypeCallback without the test of !snippetSocket: a later server
\* replaces the registered one
getTypeCallback_overwrite(socket, type) ==
  IF type = "server"
  THEN /\ snippetSocket' = socket
       /\ role' = [role EXCEPT ![socket] = "worker"]
       /\ UNCHANGED <<status, emitted>>
  ELSE UNCHANGED <<snippetSocket, role, status, emitted>>

\* getTypeCallback comparing the answer with "worker" instead of "server"
getTypeCallback_literal(socket, type) ==
  IF type = "worker"
  THEN IF snippetSocket = NoSocket
       THEN /\ snippetSocket' = socket
            /\ role' = [role EXCEPT ![socket] = "worker"]
            /\ UNCHANGED <<status, emitted>>
       ELSE /\ role' = [role EXCEPT ![socket] = "rejected"]
            /\ UNCHANGED <<snippetSocket, status, emitted>>
  ELSE UNCHANGED <<snippetSocket, role, status, emitted>>

\* getTypeCallback closing the socket of a second server
getTypeCallback_kick(socket, type) ==
  IF type = "server"
  THEN IF snippetSocket = NoSocket
       THEN /\ snippetSocket' = socket
            /\ role' = [role EXCEPT ![socket] = "worker"]
            /\ UNCHANGED <<status, emitted>>
       ELSE /\ role' = [role EXCEPT ![socket] = "rejected"]
            /\ status' = [status EXCEPT ![socket] = "closed"]
            /\ UNCHANGED <<snippetSocket, emitted>>
  ELSE UNCHANGED <<snippetSocket, role, status, emitted>>

\* the callback of socket.emit("getType", ...): the peer answered `type`
getTypeCallback(socket, type) ==
  IF type = "server"
  THEN IF snippetSocket = NoSocket
       THEN /\ snippetSocket' = socket
            /\ role' = [role EXCEPT ![socket] = "worker"]
            /\ UNCHANGED <<status, emitted>>
       ELSE /\ role' = [role EXCEPT ![socket] = "rejected"]
            /\ UNCHANGED <<snippetSocket, status, emitted>>
  ELSE UNCHANGED <<snippetSocket, role, status, emitted>>

\* the disconnect handler clearing the slot whichever socket disconnects
onDisconnect_any(socket) ==
  /\ snippetSocket' = NoSocket
  /\ UNCHANGED <<emitted, calls>>

\* the disconnect handler never clearing the slot
onDisconnect_keep(socket) ==
  /\ snippetSocket' = snippetSocket
  /\ UNCHANGED <<emitted, calls>>

\* socket.on("disconnect", ...)
onDisconnect(socket) ==
  /\ snippetSocket' = IF snippetSocket # NoSocket /\ snippetSocket = socket
                      THEN NoSocket
                      ELSE snippetSocket
  /\ UNCHANGED <<emitted, calls>>

\* the clientCB a relayed call's reply callback closes over: the
\* acknowledgement of call k on the socket that sent it
ClientCB(k) == [to |-> calls[k].caller, id |-> k]

\* socket.on("action", function(data, clientCB) ...) for the envelope of call k
onAction(k) ==
  IF snippetSocket # NoSocket
  THEN /\ calls' = [calls EXCEPT ![k].st = "pending", ![k].worker = snippetSocket]
       /\ emitted' = Emit(emitted, snippetSocket, calls[k].fn)
  ELSE /\ calls' = [calls EXCEPT ![k].st = "dropped"]
       /\ UNCHANGED emitted

\* function(result) { clientCB(result); } of relayed call k: the acknowledgement
\* goes out on the caller's socket, and is lost when that socket is closed
replyCallback(k, result) ==
  /\ calls' = [calls EXCEPT ![k].st = "replied", ![k].reply = result]
  /\ acks' = IF ClientCB(k).to \in Live
             THEN acks \cup {[to |-> ClientCB(k).to, id |-> ClientCB(k).id,
                              val |-> result]}
             ELSE acks

\* ------------------------------------------------------------ the driver

\* Promise.promisify(socket.emit): the callback handed to emit is a node-style
\* callback (err, value), and the acknowledgement arrives as its first argument
emitAsync(ackValue) ==
  IF Truthy(ackValue)
  THEN [settled |-> "rejected", with |-> ackValue]
  ELSE [settled |-> "fulfilled", with |-> Undefined]

\* exec: await emitAsync, return res; catch (e) logs and returns nothing
exec(ackValue) ==
  IF emitAsync(ackValue).settled = "fulfilled"
  THEN emitAsync(ackValue).with
  ELSE Undefined

\* what the caller of call k gets when its acknowledgement arrives with ackValue
Result(k, ackValue) ==
  IF calls[k].via = "exec" THEN exec(ackValue) ELSE ackValue

\* the next free call number
NextCall == Cardinality(Used) + 1

\* the call a typed method m makes first: loadGPR awaits setData, the others
\* hand their own envelope to exec
firstCall(c, m, n) ==
  IF m = "loadGPR"
  THEN [NoCall EXCEPT !.st = "sent", !.caller = c, !.via = "exec",
                      !.method = m, !.fn = Fn("setData"), !.name = n,
                      !.next = Fn(m)]
  ELSE [NoCall EXCEPT !.st = "sent", !.caller = c, !.via = "exec",
                      !.method = m, !.fn = Fn(m), !.name = n]

\* the typed methods without the test of the name
typedMethod_unchecked(c, m, n) ==
  calls' = [calls EXCEPT ![NextCall] = firstCall(c, m, n)]

\* the typed methods, loadGPR handing 'snippet load gpr' to exec without
\* awaiting setData
typedMethod_loadFirst(c, m, n) ==
  calls' = [calls EXCEPT ![NextCall] =
    IF m \in ChecksName /\ TypeOf(n) # "string"
    THEN [NoCall EXCEPT !.st = "thrown", !.caller = c, !.via = "exec",
                        !.method = m, !.name = n]
    ELSE [firstCall(c, m, n) EXCEPT !.fn = Fn(m), !.next = "none"]]

\* a typed method of the driver, called with name argument n
typedMethod(c, m, n) ==
  calls' = [calls EXCEPT ![NextCall] =
    IF m \in ChecksName /\ TypeOf(n) # "string"
    THEN [NoCall EXCEPT !.st = "thrown", !.caller = c, !.via = "exec",
                        !.method = m, !.name = n]
    ELSE firstCall(c, m, n)]

\* execCb(fn, args, cb), and a bare socket.emit('action', {fn, args}, cb)
emitAction(c, via, fn, n) ==
  calls' = [calls EXCEPT ![NextCall] =
    [NoCall EXCEPT !.st = "sent", !.caller = c, !.via = via, !.fn = fn,
                   !.name = n]]

\* --------------------------------------------------------------- actions

\* io.on("connect"): a new socket, and the role query goes out to it
Connect(c) ==
  /\ status[c] = "fresh"
  /\ \A b \in Conns : b < c /\ (b \in Drivers <=> c \in Drivers) => status[b] # "fresh"
  /\ status' = [status EXCEPT ![c] = "live"]
  /\ emitted' = Emit(emitted, c, "getType")
  /\ UNCHANGED <<answered, role, snippetSocket, calls, acks>>

\* the role answer of a broker that kept the calls it could not forward and
\* forwards them to the server that registers
RoleAnswer_flush(c) ==
  /\ status[c] = "live"
  /\ answered[c] = "none"
  /\ \E type \in (IF c \in Drivers THEN {"client"} ELSE Types) :
       /\ answered' = [answered EXCEPT ![c] = type]
       /\ getTypeCallback(c, type)
  /\ calls' = [k \in Calls |->
                IF calls[k].st = "dropped" /\ snippetSocket' # NoSocket
                THEN [calls[k] EXCEPT !.st = "pending", !.worker = snippetSocket']
                ELSE calls[k]]
  /\ UNCHANGED acks

\* the peer acknowledges getType: a driver with 'client', others as they like
RoleAnswer(c) ==
  /\ status[c] = "live"
  /\ answered[c] = "none"
  /\ \E type \in (IF c \in Drivers THEN {"client"} ELSE Types) :
       /\ answered' = [answered EXCEPT ![c] = type]
       /\ getTypeCallback(c, type)
  /\ UNCHANGED <<calls, acks>>

\* the transport reports the end of connection c
Disconnect(c) ==
  /\ status[c] = "live"
  /\ status' = [status EXCEPT ![c] = "closed"]
  /\ onDisconnect(c)
  /\ acks' = {p \in acks : p.to # c}
  /\ answered' = [answered EXCEPT ![c] = "none"]
  /\ role' = [role EXCEPT ![c] = "unknown"]

\* a driver's typed method is called
TypedCall(c, inputs) ==
  /\ c \in Drivers
  /\ status[c] = "live"
  /\ NextCall \in Calls
  /\ \E in \in inputs : typedMethod(c, in[1], in[2])
  /\ UNCHANGED <<status, answered, role, snippetSocket, emitted, acks>>

\* a driver's execCb is called
ExecCb(c) ==
  /\ c \in Drivers
  /\ status[c] = "live"
  /\ NextCall \in Calls
  /\ emitAction(c, "execCb", "snippet train", Str("foo"))
  /\ UNCHANGED <<status, answered, role, snippetSocket, emitted, acks>>

\* another peer emits 'action' with an acknowledgement callback
PeerAction(c) ==
  /\ c \notin Drivers
  /\ status[c] = "live"
  /\ NextCall \in Calls
  /\ emitAction(c, "emit", "sampler running", Undefined)
  /\ UNCHANGED <<status, answered, role, snippetSocket, emitted, acks>>

\* the broker receives the 'action' of call k (a socket's packets in order)
ReceiveAction(k) ==
  /\ calls[k].st = "sent"
  /\ calls[k].caller \in Live
  /\ \A j \in Calls : j < k /\ calls[j].caller = calls[k].caller => calls[j].st # "sent"
  /\ onAction(k)
  /\ UNCHANGED <<status, answered, role, snippetSocket, acks>>

\* the peer a call was relayed to acknowledges it with some value
WorkerReply(k) ==
  /\ calls[k].st = "pending"
  /\ calls[k].worker \in Live
  /\ \E v \in Values : replyCallback(k, v)
  /\ UNCHANGED <<status, answered, role, snippetSocket, emitted>>

\* the acknowledgement of call k finds a place for the call that awaits it
CanResume(k) == calls[k].next = "none" \/ NextCall \in Calls

\* socket.io client: an acknowledgement packet arrives; the callback stored
\* under its id is taken out and invoked, an unknown id is ignored.  exec
\* returns, and a loadGPR awaiting this call hands its own envelope to exec
onAck(p) ==
  calls' = IF calls[p.id].caller = p.to /\ calls[p.id].nacks = 0
              /\ calls[p.id].st \notin {"unused", "thrown"}
           THEN LET done == [calls EXCEPT ![p.id].nacks = @ + 1,
                                          ![p.id].got = p.val,
                                          ![p.id].result = Result(p.id, p.val)]
                IN IF calls[p.id].next = "none"
                   THEN done
                   ELSE [done EXCEPT ![NextCall] =
                          [NoCall EXCEPT !.st = "sent", !.caller = p.to,
                                         !.via = "exec",
                                         !.method = calls[p.id].method,
                                         !.fn = calls[p.id].next,
                                         !.name = calls[p.id].name,
                                         !.after = p.id]]
           ELSE calls

\* an acknowledgement the broker sent reaches its client
ReceiveAck(p) ==
  /\ p \in acks
  /\ p.to \in Live
  /\ CanResume(p.id)
  /\ acks' = acks \ {p}
  /\ onAck(p)
  /\ UNCHANGED <<status, answered, role, snippetSocket, emitted>>

\* the driver seen from its socket: whatever is at the other end acknowledges
\* a call the driver has sent, with some value
AckArrives(k) ==
  /\ calls[k].st = "sent"
  /\ calls[k].nacks = 0
  /\ calls[k].caller \in Live
  /\ CanResume(k)
  /\ \E v \in Values : onAck([to |-> calls[k].caller, id |-> k, val |-> v])
  /\ UNCHANGED <<status, answered, role, snippetSocket, emitted, acks>>

\* the broker on a push event from a socket: io.on("connect") installs
\* handlers for "disconnect" and "action" only, so the event has no listener
onPush(socket, ev) ==
  UNCHANGED <<status, answered, role, snippetSocket, emitted, calls, acks>>

\* the registered snippet server emits a push event to the broker
ServerPush(c) ==
  /\ status[c] = "live"
  /\ snippetSocket = c
  /\ \E ev \in PushEvents :
       /\ pushed[ev] < MaxPush
       /\ pushed' = [pushed EXCEPT ![ev] = @ + 1]
       /\ onPush(c, ev)
  /\ UNCHANGED driverVars

Next ==
  \/ \E c \in Conns : Connect(c) /\ UNCHANGED <<pushed, driverVars>>
  \/ \E c \in Conns : RoleAnswer(c) /\ UNCHANGED <<pushed, driverVars>>
  \/ \E c \in Conns : Disconnect(c) /\ UNCHANGED <<pushed, driverVars>>
  \/ \E c \in Conns : TypedCall(c, RelayInputs) /\ UNCHANGED <<pushed, driverVars>>
  \/ \E c \in Conns : ExecCb(c) /\ UNCHANGED <<pushed, driverVars>>
  \/ \E c \in Conns : PeerAction(c) /\ UNCHANGED <<pushed, driverVars>>
  \/ \E k \in Calls : ReceiveAction(k) /\ UNCHANGED <<pushed, driverVars>>
  \/ \E k \in Calls : WorkerReply(k) /\ UNCHANGED <<pushed, driverVars>>
  \/ \E p \in acks : ReceiveAck(p) /\ UNCHANGED <<pushed, driverVars>>

Spec == Init /\ [][Next]_vars

\* the connections of the broker and the push events of the snippet server
PushNext ==
  \/ \E c \in Conns : Connect(c) /\ UNCHANGED <<pushed, driverVars>>
  \/ \E c \in Conns : RoleAnswer(c) /\ UNCHANGED <<pushed, driverVars>>
  \/ \E c \in Conns : Disconnect(c) /\ UNCHANGED <<pushed, driverVars>>
  \/ \E c \in Conns : ServerPush(c)

PushSpec == Init /\ [][PushNext]_vars

\* the driver and its connection, no server ever registering: every argument
\* list of its typed methods, and the acknowledgements its socket may get
DriverNext ==
  \/ \E c \in Drivers : Connect(c) /\ UNCHANGED <<pushed, driverVars>>
  \/ \E c \in Drivers : Disconnect(c) /\ UNCHANGED <<pushed, driverVars>>
  \/ \E c \in Drivers : TypedCall(c, MethodInputs) /\ UNCHANGED <<pushed, driverVars>>
  \/ \E c \in Drivers : ExecCb(c) /\ UNCHANGED <<pushed, driverVars>>
  \/ \E k \in Calls : AckArrives(k) /\ UNCHANGED <<pushed, driverVars>>

DriverSpec == Init /\ [][DriverNext]_vars

\* ------------------------------------------------- the driver's listeners

\* if (self.connectCallback)
\*   self.connectCallback(self.connected, self.snippetServerOnline);
callConnectCallback(s) ==
  IF s.connectCallback # Null
  THEN <<[cb |-> "connectCallback", handler |-> s.connectCallback,
          args |-> Flags(s)]>>
  ELSE <<>>

\* socket.on('connect', ...)
onConnectEvent(s) ==
  LET t == [s EXCEPT !.connected = TRUE]
  IN [self |-> t, invoked |-> callConnectCallback(t)]

\* the 'disconnect' listener resetting connected only
onDisconnectEvent_keepOnline(s) ==
  LET t == [s EXCEPT !.connected = FALSE]
  IN [self |-> t, invoked |-> callConnectCallback(t)]

\* socket.on('disconnect', ...)
onDisconnectEvent(s) ==
  LET t == [s EXCEPT !.connected = FALSE, !.snippetServerOnline = FALSE]
  IN [self |-> t, invoked |-> callConnectCallback(t)]

\* socket.on('no server', ...)
onNoServer(s) ==
  LET t == [s EXCEPT !.snippetServerOnline = FALSE]
  IN [self |-> t, invoked |-> callConnectCallback(t)]

\* the 'server ok' listener handing the handler the flags it read before
\* setting snippetServerOnline
onServerOk_stale(s) ==
  LET t == [s EXCEPT !.snippetServerOnline = TRUE]
  IN [self |-> t, invoked |-> callConnectCallback(s)]

\* socket.on('server ok', ...)
onServerOk(s) ==
  LET t == [s EXCEPT !.snippetServerOnline = TRUE]
  IN [self |-> t, invoked |-> callConnectCallback(t)]

\* disconnect(): socket.close() makes a connected socket emit 'disconnect'
\* before it returns, then the method resets the flags and calls the handler
disconnect(s, sock) ==
  LET closed == IF sock = "connected"
                THEN onDisconnectEvent(s)
                ELSE [self |-> s, invoked |-> <<>>]
      t == [closed.self EXCEPT !.connected = FALSE,
                               !.snippetServerOnline = FALSE]
  IN [self |-> t, invoked |-> closed.invoked \o callConnectCallback(t)]

\* sampleReturned handing the sample to the handler twice
sampleReturned_twice(s, data) ==
  [self |-> s,
   invoked |-> IF s.sampleCallback # Null
               THEN <<[cb |-> "sampleCallback", handler |-> s.sampleCallback,
                       args |-> <<data>>],
                      [cb |-> "sampleCallback", handler |-> s.sampleCallback,
                       args |-> <<data>>]>>
               ELSE <<>>]

\* sampleReturned(data, snippetName), called by the 'single sample' listener
sampleReturned(s, data) ==
  [self |-> s,
   invoked |-> IF s.sampleCallback # Null
               THEN <<[cb |-> "sampleCallback", handler |-> s.sampleCallback,
                       args |-> <<data>>]>>
               ELSE <<>>]

\* samplerComplete(data, snippetName), called by the 'sampler complete' listener
samplerComplete(s, data) ==
  [self |-> s,
   invoked |-> IF s.sampleFinalCallback # Null
               THEN <<[cb |-> "sampleFinalCallback",
                       handler |-> s.sampleFinalCallback, args |-> <<data>>]>>
               ELSE <<>>]

\* one step of the driver object: event ev with payload data was handled with
\* outcome r, and the socket is left in state sock
Deliver(ev, data, r, sock) ==
  /\ delivered' = [ev |-> ev, data |-> data, before |-> Flags(self)]
  /\ self' = r.self
  /\ invoked' = r.invoked
  /\ driverSocket' = sock
  /\ UNCHANGED brokerVars

\* the socket gets connected (the first time, or again after a drop)
ConnectEvent ==
  /\ driverSocket = "connecting"
  /\ Deliver("connect", "none", onConnectEvent(self), "connected")

\* the transport drops; the socket starts to reconnect
DisconnectEvent ==
  /\ driverSocket = "connected"
  /\ Deliver("disconnect", "none", onDisconnectEvent(self), "connecting")

\* the other end emits 'server ok'
ServerOk ==
  /\ driverSocket = "connected"
  /\ Deliver("server ok", "none", onServerOk(self), driverSocket)

\* the other end emits 'no server'
NoServer ==
  /\ driverSocket = "connected"
  /\ Deliver("no server", "none", onNoServer(self), driverSocket)

\* the other end emits 'single sample'
SingleSample ==
  /\ driverSocket = "connected"
  /\ \E d \in SampleData :
       Deliver("single sample", d, sampleReturned(self, d), driverSocket)

\* the other end emits 'sampler complete'
SamplerComplete ==
  /\ driverSocket = "connected"
  /\ \E d \in SampleData :
       Deliver("sampler complete", d, samplerComplete(self, d), driverSocket)

\* the application calls disconnect()
DisconnectCall ==
  /\ driverSocket \in {"connecting", "connected", "closed"}
  /\ Deliver("disconnect()", "none", disconnect(self, driverSocket), "closed")

\* the application assigns a handler field of the driver
Register ==
  \E field \in HandlerFields, h \in Handlers \cup {Null} :
    /\ self[field] # h
    /\ Deliver("none", "none",
               [self |-> [self EXCEPT ![field] = h], invoked |-> <<>>],
               driverSocket)

\* the driver object and its socket, whatever is at the other end
EventNext ==
  \/ ConnectEvent
  \/ DisconnectEvent
  \/ ServerOk
  \/ NoServer
  \/ SingleSample
  \/ SamplerComplete
  \/ DisconnectCall
  \/ Register

EventSpec == Init /\ [][EventNext]_vars

\* ---------------------------------------------------------------- claims

\* the live connections the broker has registered as the snippet server
Workers == {c \in Conns : status[c] = "live" /\ role[c] = "worker"}

\* C1: whatever the sequence of connect, disconnect and role-answer events, at
\* most one live connection holds the worker role, and it is the one in the slot
C1_AtMostOneWorker ==
  /\ Cardinality(Workers) <= 1
  /\ \A c \in Workers : snippetSocket = c

\* C1 witness: a server is registered while another live connection has asked
\* for the role too
C1_Witness ==
  \E w, c \in Conns :
    /\ w # c
    /\ snippetSocket = w
    /\ status[c] = "live"
    /\ answered[c] = "server"

\* the failure values the specification names
NoWorkerAvailable == Str("NoWorkerAvailable")
WorkerDisconnected == Str("WorkerDisconnected")

\* C2: a call the broker receives while the worker slot is empty is resolved at
\* its caller with NoWorkerAvailable: the acknowledgement has been invoked with
\* that failure or is on its way to the caller
C2_NoWorkerResolves ==
  \A k \in Calls :
    calls[k].st = "dropped" /\ calls[k].caller \in Live =>
      \/ calls[k].nacks = 1 /\ calls[k].got = NoWorkerAvailable
      \/ [to |-> calls[k].caller, id |-> k, val |-> NoWorkerAvailable] \in acks

\* the acknowledgement callback of a call is invoked at most once, only for a
\* call the worker has replied to and with exactly that reply, and every
\* acknowledgement on its way goes to the socket that sent the call it answers
RepliesCorrelated ==
  /\ \A k \in Calls :
       /\ calls[k].nacks <= 1
       /\ calls[k].nacks = 1 =>
            calls[k].st = "replied" /\ calls[k].got = calls[k].reply
  /\ \A p \in acks :
       /\ calls[p.id].st = "replied"
       /\ p.to = calls[p.id].caller
       /\ p.val = calls[p.id].reply

\* C3: with several calls outstanding together and the worker replying in any
\* order, a call resolved while an earlier call of the same client still waits
\* is resolved once, at the client that issued it, with exactly the reply the
\* worker gave to that call
C3_ConcurrentCallsGetTheirReplies ==
  \A j, k \in Calls :
    /\ j < k
    /\ calls[j].caller = calls[k].caller
    /\ calls[j].st = "pending"
    /\ calls[k].nacks >= 1
    => /\ calls[k].nacks = 1
       /\ calls[k].st = "replied"
       /\ calls[k].result = calls[k].reply

\* C4: when the worker connection disconnects, every call relayed to it and not
\* yet answered is resolved with WorkerDisconnected in that same step, and none
\* of them stays pending
C4_WorkerDisconnectFailsPending ==
  [][\A w \in Conns :
       status[w] = "live" /\ status'[w] = "closed" /\ snippetSocket = w =>
         \A k \in Calls :
           calls[k].st = "pending" /\ calls[k].worker = w =>
             /\ calls'[k].st # "pending"
             /\ status'[calls[k].caller] = "live" =>
                  [to |-> calls[k].caller, id |-> k, val |-> WorkerDisconnected]
                    \in acks']_vars

\* C5: on every transition of the worker slot each connected client gets the
\* presence event once ("server ok" on registration, "no server" on the
\* worker's disconnect), and no presence event is emitted at any other step
C5_PresenceOncePerTransition ==
  [][LET attach == snippetSocket = NoSocket /\ snippetSocket' # NoSocket
         detach == snippetSocket # NoSocket /\ snippetSocket' = NoSocket
     IN \A c \in Conns :
          LET client == status'[c] = "live" /\ answered'[c] = "client"
          IN /\ emitted'[c]["server ok"] =
                  emitted[c]["server ok"] + (IF attach /\ client THEN 1 ELSE 0)
             /\ emitted'[c]["no server"] =
                  emitted[c]["no server"] + (IF detach /\ client THEN 1 ELSE 0)]_vars

\* C6: the value the worker passes to the acknowledgement of a relayed call is
\* what the driver call that issued it (exec, and the typed method on it) returns
C6_ExecReturnsAckValue ==
  \A k \in Calls :
    calls[k].via = "exec" /\ calls[k].nacks = 1 =>
      calls[k].result = calls[k].reply

\* C7: addSnippet with an empty name fails locally and sends nothing
C7_AddSnippetEmptyNameFailsLocally ==
  \A k \in Calls :
    calls[k].method = "addSnippet" /\ calls[k].name = Str("") =>
      calls[k].st = "thrown"

\* the call that one step of the broker relays, seen across the step
RelayedNow(k) == calls[k].st = "sent" /\ calls'[k].st = "pending"

\* C8 as claimed: a connection that answers the role query with "worker" while
\* no worker is registered becomes the registered worker
C8_WorkerAnswerRegisters ==
  [][\A c \in Conns :
       answered[c] = "none" /\ answered'[c] = "worker" /\ snippetSocket = NoSocket
         => snippetSocket' = c]_vars

\* C8 amended: a connection that answers the role query with "server" while no
\* worker is registered becomes the registered worker, and every call relayed
\* from then on goes to the connection in the slot
C8_ServerAnswerRegisters ==
  [][/\ \A c \in Conns :
          answered[c] = "none" /\ answered'[c] = "server" /\ snippetSocket = NoSocket
            => snippetSocket' = c /\ role'[c] = "worker"
     /\ \A k \in Calls :
          RelayedNow(k) => snippetSocket # NoSocket /\ calls'[k].worker = snippetSocket]_vars

\* C8 witness: the connection that answered "server" is in the slot and a call
\* has been relayed to it
C8_Witness ==
  \E c \in Conns :
    /\ answered[c] = "server"
    /\ snippetSocket = c
    /\ \E k \in Calls : calls[k].st = "pending" /\ calls[k].worker = c

\* C9: a request for the worker role while a worker is registered is rejected:
\* the slot keeps the registered connection, the new one is not promoted and
\* stays connected, and calls are relayed to a connection holding the worker
\* role only
C9_SecondWorkerRejected ==
  [][/\ \A c \in Conns :
          answered[c] = "none" /\ answered'[c] = "server" /\ snippetSocket # NoSocket
            => /\ snippetSocket' = snippetSocket
               /\ snippetSocket' # c
               /\ role'[c] # "worker"
               /\ role'[snippetSocket] = "worker"
               /\ status'[c] = "live"
     /\ \A k \in Calls :
          RelayedNow(k) => role[calls'[k].worker] = "worker"]_vars

\* C9 witness: a rejected connection is still connected, and a call it sent
\* waits at the worker registered before it
C9_Witness ==
  \E c, w \in Conns :
    /\ c # w
    /\ status[c] = "live"
    /\ role[c] = "rejected"
    /\ snippetSocket = w
    /\ \E k \in Calls :
         calls[k].st = "pending" /\ calls[k].worker = w /\ calls[k].caller = c

\* C10: a call is relayed to the worker only if the connection that sent it has
\* registered as a client: never for a connection of unknown role, never for
\* the worker connection itself
C10_OnlyClientsRouted ==
  [][\A k \in Calls :
       RelayedNow(k) => answered[calls[k].caller] = "client"]_vars

\* C11: every push event the server emits to the broker is relayed to all the
\* connected clients: each of them gets the event once more
C11_PushRelayedToClients ==
  [][\A ev \in PushEvents :
       pushed'[ev] = pushed[ev] + 1 =>
         \A c \in Conns :
           status[c] = "live" /\ answered[c] = "client" =>
             emitted'[c][ev] = emitted[c][ev] + 1]_vars

\* the invocations of handler field cb made by the driver's last step
InvokedOf(cb) == SelectSeq(invoked, LAMBDA i : i.cb = cb)

\* C12: whenever a step changes the driver's connected or snippetServerOnline
\* flag while a status-change handler is registered, the handler is invoked,
\* and every invocation of it passes the pair of the driver's current flags
C12_HandlerGetsCurrentPair ==
  /\ \A i \in 1..Len(invoked) :
       invoked[i].cb = "connectCallback" =>
         /\ invoked[i].args = Flags(self)
         /\ invoked[i].handler = self.connectCallback
  /\ delivered.before # Flags(self) /\ self.connectCallback # Null =>
       InvokedOf("connectCallback") # <<>>

\* C12 happens: disconnect() on a connected, online driver called the handler
C12_Witness ==
  /\ delivered.ev = "disconnect()"
  /\ delivered.before = <<TRUE, TRUE>>
  /\ Len(InvokedOf("connectCallback")) = 2

\* C13: once a client connection has disconnected, none of its calls is
\* still pending at the broker, and no acknowledgement is under way to it
C13_DisconnectDiscardsPending ==
  /\ \A k \in Calls : calls[k].st = "pending" => calls[k].caller \in Live
  /\ \A p \in acks : p.to \in Live

\* C14: a call that reached the broker while no server was registered is
\* never forwarded: it stays dropped whatever happens afterwards, and a call
\* is only ever forwarded by the 'action' handler to the server registered then
C14_DroppedNeverForwarded ==
  [][\A k \in Calls :
       /\ calls[k].st = "dropped" => calls'[k] = calls[k]
       /\ calls[k].st # "pending" /\ calls'[k].st = "pending" =>
            /\ calls[k].st = "sent"
            /\ snippetSocket # NoSocket
            /\ calls'[k].worker = snippetSocket]_vars

\* C14 happens: a server is registered while a dropped call's caller is live
C14_Witness ==
  \E k \in Calls :
    /\ calls[k].st = "dropped"
    /\ calls[k].caller \in Live
    /\ snippetSocket # NoSocket
    /\ snippetSocket # calls[k].caller

\* C15: when a connection disconnects, the server slot is emptied if that
\* connection is the registered server, and is left as it is otherwise
C15_SlotClearedIffWorker ==
  [][\A c \in Conns :
       status[c] = "live" /\ status'[c] = "closed" =>
         snippetSocket' = IF snippetSocket = c THEN NoSocket ELSE snippetSocket]_vars

\* C15 happens: a client whose call the registered server has not answered
\* yet has disconnected, and that server still holds the slot
C15_Witness ==
  \E k \in Calls :
    /\ calls[k].st = "pending"
    /\ status[calls[k].caller] = "closed"
    /\ snippetSocket # NoSocket
    /\ snippetSocket = calls[k].worker
    /\ snippetSocket # calls[k].caller

\* C18: a non-empty server slot names a connection that is live
C18_SlotIsLive ==
  snippetSocket # NoSocket => status[snippetSocket] = "live"

\* C18 happens: the registered server has disconnected and another connection
\* has taken the slot since
C18_Witness ==
  /\ snippetSocket # NoSocket
  /\ \E c \in Conns :
       /\ status[c] = "closed"
       /\ \E k \in Calls : calls[k].worker = c
       /\ c # snippetSocket

\* what a step that handled event ev must have invoked of handler field cb:
\* the handler assigned to the field, once, with the event's payload
OncePerEvent(ev, cb) ==
  InvokedOf(cb) =
    IF delivered.ev = ev /\ self[cb] # Null
    THEN <<[cb |-> cb, handler |-> self[cb], args |-> <<delivered.data>>]>>
    ELSE <<>>

\* C16: a push event arriving while no handler is assigned to its field
\* invokes nothing, one arriving while a handler is assigned invokes that
\* handler exactly once with its payload, and no other step of the driver
\* (assigning a handler included) invokes a push handler
C16_PushHandledOnceOrDropped ==
  /\ OncePerEvent("single sample", "sampleCallback")
  /\ OncePerEvent("sampler complete", "sampleFinalCallback")

\* C16 happens: a sample arrived and the assigned handler got it
C16_Witness ==
  /\ delivered.ev = "single sample"
  /\ delivered.data = "s2"
  /\ self.sampleCallback = "g"
  /\ Len(invoked) = 1

C17_BadNameThrowsAndSendsNothing ==
  \A k \in Calls :
    /\ calls[k].method \in
         {"setData", "addData", "removeData", "train", "showLoss", "plot1D",
          "predictOne", "predict", "sample", "setProp", "getProp", "loadGPR"}
    /\ TypeOf(calls[k].name) # "string"
    => /\ calls[k].st = "thrown"
       /\ calls[k].fn = "none"
       /\ calls[k].nacks = 0
       /\ \A j \in Calls : calls[j].after # k

\* C17 happens: loadGPR and setProp were called without a name
C17_Witness ==
  \E j, k \in Calls :
    /\ calls[j].method = "loadGPR" /\ calls[j].name = Undefined
    /\ calls[k].method = "setProp" /\ calls[k].name = Undefined
    /\ calls[j].st = "thrown" /\ calls[k].st = "thrown"

\* C20: the 'snippet load gpr' call of a loadGPR is sent after the
\* acknowledgement of the 'snippet set data' call the same loadGPR sent before,
\* and as long as that call is not acknowledged nothing follows it
C20_LoadGprAfterSetDataResolved ==
  /\ \A k \in Calls :
       calls[k].method = "loadGPR" /\ calls[k].fn = "snippet load gpr" =>
         /\ calls[k].after \in Calls
         /\ calls[k].after < k
         /\ calls[calls[k].after].method = "loadGPR"
         /\ calls[calls[k].after].fn = "snippet set data"
         /\ calls[calls[k].after].name = calls[k].name
         /\ calls[calls[k].after].nacks = 1
  /\ \A j \in Calls :
       calls[j].method = "loadGPR" /\ calls[j].st = "sent" /\ calls[j].nacks = 0
       /\ calls[j].fn = "snippet set data" =>
         \A k \in Calls : calls[k].after # j

\* C20 happens: a loadGPR went through both of its calls
C20_Witness ==
  \E k \in Calls :
    /\ calls[k].method = "loadGPR"
    /\ calls[k].fn = "snippet load gpr"
    /\ calls[k].nacks = 1

====
